---- MODULE Spec2Model ----
(***************************************************************************)
(* A model of the scaffold command-line tool (src/src/example.rs): the     *)
(* command router, the three project generators, the content builders and  *)
(* the file-system / process calls they make.                              *)
(*                                                                         *)
(* Paths are sequences of path segments, file contents are strings, and    *)
(* a generator is the straight-line sequence of the effectful calls it     *)
(* makes; every call that returns a Result may fail.                       *)
(***************************************************************************)
EXTENDS Integers, Sequences, FiniteSets, TLC

VARIABLES
    cmd,      \* the parsed command line (Commands, lines 26-60)
    fs,       \* the file system: path -> [kind, content]
    fs0,      \* the file system when the command started
    pc,       \* index of the next call of the running generator
    status,   \* "running", "ok" (main returned Ok) or "err" (main returned Err)
    err,      \* the message of the error main returned
    content,  \* the local `content` of enhance_cargo_toml / a builder's return value
    ops       \* the fallible file-system and process calls made so far, in order

vars == <<cmd, fs, fs0, pc, status, err, content, ops>>

(* ------------------------------ bounds --------------------------------- *)

MaxNames == 2

NameTable == <<"demo", "mobile", "core", "web", "x">>

Names == {NameTable[i] : i \in 1..MaxNames}

ProjectTypes == {"binary", "library", "lib"}

(* ------------------------------ strings -------------------------------- *)

Contains(s, sub) ==
    \E i \in 1..(Len(s) - Len(sub) + 1) : SubSeq(s, i, i + Len(sub) - 1) = sub

\* index of the first occurrence of sub in s at or after position i, 0 if none
Find(s, sub, i) ==
    LET hits == {k \in i..(Len(s) - Len(sub) + 1) : SubSeq(s, k, k + Len(sub) - 1) = sub}
    IN  IF hits = {} THEN 0 ELSE CHOOSE k \in hits : \A j \in hits : k <= j

\* the text of the JSON object that follows `"key": {`, up to its closing brace
Section(text, key) ==
    LET open == "\"" \o key \o "\": {"
        a == Find(text, open, 1)
        b == IF a = 0 THEN 0 ELSE Find(text, "}", a + Len(open))
    IN  IF a = 0 \/ b = 0 THEN "" ELSE SubSeq(text, a + Len(open), b - 1)

HasKey(section, key) == Contains(section, "\"" \o key \o "\":")

RECURSIVE Join(_, _)
\* Vec<String>::join(sep)
Join(strs, sep) ==
    IF Len(strs) = 0 THEN ""
    ELSE IF Len(strs) = 1 THEN strs[1]
    ELSE strs[1] \o sep \o Join(Tail(strs), sep)

(* ------------------------------ content builders ----------------------- *)

(* example.rs lines 285-308 *)
package_json_format(name, test_entry, deps_str, dev_deps_str) ==
    "{\n"
    \o "  \"name\": \""
    \o name
    \o "\",\n"
    \o "  \"private\": true,\n"
    \o "  \"version\": \"0.0.0\",\n"
    \o "  \"type\": \"module\",\n"
    \o "  \"scripts\": {\n"
    \o "    \"dev\": \"vite\",\n"
    \o "    \"build\": \"vite build\",\n"
    \o "    \"lint\": \"eslint . --ext ts,tsx --report-unused-disable-directives --max-warnings 0\",\n"
    \o "    \"preview\": \"vite preview\""
    \o test_entry
    \o "\n"
    \o "  },\n"
    \o "  \"dependencies\": {\n"
    \o deps_str
    \o "\n"
    \o "  },\n"
    \o "  \"devDependencies\": {\n"
    \o dev_deps_str
    \o "\n"
    \o "  }\n"
    \o "}"

(* example.rs lines 304-305 *)
test_script_entry ==
    ",\n"
    \o "    \"test\": \"vitest\""

(* example.rs lines 311-333 *)
generate_tsconfig ==
    "{\n"
    \o "  \"compilerOptions\": {\n"
    \o "    \"target\": \"ES2020\",\n"
    \o "    \"useDefineForClassFields\": true,\n"
    \o "    \"lib\": [\"ES2020\", \"DOM\", \"DOM.Iterable\"],\n"
    \o "    \"module\": \"ESNext\",\n"
    \o "    \"skipLibCheck\": true,\n"
    \o "    \"moduleResolution\": \"bundler\",\n"
    \o "    \"allowImportingTsExtensions\": true,\n"
    \o "    \"resolveJsonModule\": true,\n"
    \o "    \"isolatedModules\": true,\n"
    \o "    \"noEmit\": true,\n"
    \o "    \"jsx\": \"react-jsx\",\n"
    \o "    \"strict\": true,\n"
    \o "    \"noUnusedLocals\": true,\n"
    \o "    \"noUnusedParameters\": true,\n"
    \o "    \"noFallthroughCasesInSwitch\": true\n"
    \o "  },\n"
    \o "  \"include\": [\"src\"],\n"
    \o "  \"references\": [{ \"path\": \"./tsconfig.node.json\" }]\n"
    \o "}"

(* example.rs lines 338-352 *)
react_app_content(ext) ==
    "import React from 'react';\n"
    \o "import './App.css';\n"
    \o "\n"
    \o "function App() {\n"
    \o "  return (\n"
    \o "    <div className=\"App\">\n"
    \o "      <header className=\"App-header\">\n"
    \o "        <h1>Welcome to your new React project!</h1>\n"
    \o "        <p>Edit src/App."
    \o ext
    \o " and save to reload.</p>\n"
    \o "      </header>\n"
    \o "    </div>\n"
    \o "  );\n"
    \o "}\n"
    \o "\n"
    \o "export default App;"

(* example.rs lines 356-365 *)
react_main_content(ext) ==
    "import React from 'react';\n"
    \o "import ReactDOM from 'react-dom/client';\n"
    \o "import App from './App."
    \o ext
    \o "';\n"
    \o "import './index.css';\n"
    \o "\n"
    \o "ReactDOM.createRoot(document.getElementById('root')!).render(\n"
    \o "  <React.StrictMode>\n"
    \o "    <App />\n"
    \o "  </React.StrictMode>,\n"
    \o ");"

(* example.rs lines 370-393 *)
css_content ==
    "body {\n"
    \o "  margin: 0;\n"
    \o "  font-family: -apple-system, BlinkMacSystemFont, 'Segoe UI', 'Roboto', 'Oxygen',\n"
    \o "    'Ubuntu', 'Cantarell', 'Fira Sans', 'Droid Sans', 'Helvetica Neue',\n"
    \o "    sans-serif;\n"
    \o "  -webkit-font-smoothing: antialiased;\n"
    \o "  -moz-osx-font-smoothing: grayscale;\n"
    \o "}\n"
    \o "\n"
    \o ".App {\n"
    \o "  text-align: center;\n"
    \o "}\n"
    \o "\n"
    \o ".App-header {\n"
    \o "  background-color: #282c34;\n"
    \o "  padding: 20px;\n"
    \o "  color: white;\n"
    \o "  min-height: 100vh;\n"
    \o "  display: flex;\n"
    \o "  flex-direction: column;\n"
    \o "  align-items: center;\n"
    \o "  justify-content: center;\n"
    \o "  font-size: calc(10px + 2vmin);\n"
    \o "}"

(* example.rs lines 404-450 *)
react_native_app_content(annotation) ==
    "import React from 'react';\n"
    \o "import {\n"
    \o "  SafeAreaView,\n"
    \o "  ScrollView,\n"
    \o "  StatusBar,\n"
    \o "  StyleSheet,\n"
    \o "  Text,\n"
    \o "  View,\n"
    \o "} from 'react-native';\n"
    \o "\n"
    \o "function App()"
    \o annotation
    \o " {\n"
    \o "  return (\n"
    \o "    <SafeAreaView style={styles.container}>\n"
    \o "      <StatusBar barStyle=\"dark-content\" />\n"
    \o "      <ScrollView contentInsetAdjustmentBehavior=\"automatic\">\n"
    \o "        <View style={styles.body}>\n"
    \o "          <Text style={styles.title}>Welcome to React Native!</Text>\n"
    \o "          <Text style={styles.subtitle}>Your project is ready to go.</Text>\n"
    \o "        </View>\n"
    \o "      </ScrollView>\n"
    \o "    </SafeAreaView>\n"
    \o "  );\n"
    \o "}\n"
    \o "\n"
    \o "const styles = StyleSheet.create({\n"
    \o "  container: {\n"
    \o "    flex: 1,\n"
    \o "  },\n"
    \o "  body: {\n"
    \o "    backgroundColor: '#fff',\n"
    \o "    flex: 1,\n"
    \o "    justifyContent: 'center',\n"
    \o "    alignItems: 'center',\n"
    \o "    padding: 20,\n"
    \o "  },\n"
    \o "  title: {\n"
    \o "    fontSize: 24,\n"
    \o "    fontWeight: 'bold',\n"
    \o "    marginBottom: 10,\n"
    \o "  },\n"
    \o "  subtitle: {\n"
    \o "    fontSize: 16,\n"
    \o "    color: '#666',\n"
    \o "  },\n"
    \o "});\n"
    \o "\n"
    \o "export default App;"

(* example.rs lines 462-483 *)
cargo_toml_block ==
    "\n"
    \o "\n"
    \o "# Common useful dependencies (uncomment as needed)\n"
    \o "[dependencies]\n"
    \o "# clap = { version = \"4.0\", features = [\"derive\"] }\n"
    \o "# serde = { version = \"1.0\", features = [\"derive\"] }\n"
    \o "# serde_json = \"1.0\"\n"
    \o "# tokio = { version = \"1.0\", features = [\"full\"] }\n"
    \o "# anyhow = \"1.0\"\n"
    \o "\n"
    \o "[dev-dependencies]\n"
    \o "# criterion = \"0.5\"\n"
    \o "\n"
    \o "# Performance optimizations\n"
    \o "[profile.release]\n"
    \o "lto = true\n"
    \o "codegen-units = 1\n"
    \o "panic = \"abort\"\n"
    \o "\n"
    \o "[profile.dev]\n"
    \o "debug = true\n"

(* lines 241-309 *)
dependencies(navigation) ==
    << <<"react", "^18.2.0">> >>
    \o (IF navigation
        THEN << <<"@react-navigation/native", "^6.1.7">>,
                <<"@react-navigation/stack", "^6.3.17">> >>
        ELSE << >>)

\* variant: the typed-language tooling is never added
dev_dependencies_no_typescript(typescript, testing) ==
    << <<"@vitejs/plugin-react", "^4.0.3">>, <<"vite", "^4.4.5">> >>
    \o (IF testing
        THEN << <<"@testing-library/react", "^13.4.0">>,
                <<"@testing-library/jest-dom", "^5.17.0">>,
                <<"vitest", "^0.34.4">> >>
        ELSE << >>)

dev_dependencies(typescript, testing) ==
    << <<"@vitejs/plugin-react", "^4.0.3">>, <<"vite", "^4.4.5">> >>
    \o (IF typescript
        THEN << <<"typescript", "^5.0.2">>,
                <<"@types/react", "^18.2.15">>,
                <<"@types/react-dom", "^18.2.7">> >>
        ELSE << >>)
    \o (IF testing
        THEN << <<"@testing-library/react", "^13.4.0">>,
                <<"@testing-library/jest-dom", "^5.17.0">>,
                <<"vitest", "^0.34.4">> >>
        ELSE << >>)

\* .map(|(name, version)| format!(r#"    "{}": "{}""#, name, version)).join(",\n")
deps_to_str(deps) ==
    Join([i \in 1..Len(deps) |->
            "    \"" \o deps[i][1] \o "\": \"" \o deps[i][2] \o "\""], ",\n")

\* variant: the test script is emitted whatever the flag
script_test_entry_always(testing) == test_script_entry

script_test_entry(testing) == IF testing THEN test_script_entry ELSE ""

generate_package_json(name, typescript, testing, navigation) ==
    package_json_format(name,
                        script_test_entry(testing),
                        deps_to_str(dependencies(navigation)),
                        deps_to_str(dev_dependencies(typescript, testing)))

(* ------------------------------ file system ---------------------------- *)

Dir == [kind |-> "dir", content |-> ""]

File(text) == [kind |-> "file", content |-> text]

Parent(p) == SubSeq(p, 1, Len(p) - 1)

\* Path::join with a relative path
join(base, rel) == base \o rel

\* variant: Path::is_dir in place of Path::exists
exists_dir_only(f, p) == p \in DOMAIN f /\ f[p].kind = "dir"

\* Path::exists
exists(f, p) == p \in DOMAIN f

is_dir(f, p) == p = << >> \/ (p \in DOMAIN f /\ f[p].kind = "dir")

Put(f, p, e) == [q \in DOMAIN f \cup {p} |-> IF q = p THEN e ELSE f[q]]

RECURSIVE create_dir_all(_, _)
\* fs::create_dir_all: [ok, fs]; the missing ancestors are made first, and a
\* component that is a file makes the call fail with what was made before it
create_dir_all(f, p) ==
    IF is_dir(f, p) THEN [ok |-> TRUE, fs |-> f]
    ELSE IF p \in DOMAIN f THEN [ok |-> FALSE, fs |-> f]
    ELSE LET up == create_dir_all(f, Parent(p))
         IN  IF up.ok THEN [ok |-> TRUE, fs |-> Put(up.fs, p, Dir)] ELSE up

\* fs::write can open (create or truncate) its target
can_write(f, p) == is_dir(f, Parent(p)) /\ ~is_dir(f, p)

\* the file systems a failing fs::write(p, text) can leave: the open failed,
\* or the target was created/truncated and only part of the text reached it
write_failures(f, p, text) ==
    {f} \cup (IF can_write(f, p)
              THEN {Put(f, p, File("")), Put(f, p, File(SubSeq(text, 1, Len(text) \div 2)))}
              ELSE {})

(* ------------------------------ generators ----------------------------- *)

\* one effectful call of a generator
Call(op, path, text, args) == [op |-> op, path |-> path, text |-> text, args |-> args]

\* lines 113-115, 147-149, 177-179: if project_path.exists() { bail!(..) }
check_free(project_path) == Call("exists", project_path, "", << >>)

mkdir(path) == Call("create_dir_all", path, "", << >>)

write(path, text) == Call("write", path, text, << >>)

\* variant: the skeleton without `public`
get_react_structure_no_public ==
    << <<"src">>, <<"src", "components">>, <<"src", "hooks">>, <<"src", "utils">>,
       <<"src", "types">>, <<".vscode">> >>

get_react_structure ==
    << <<"src">>, <<"src", "components">>, <<"src", "hooks">>, <<"src", "utils">>,
       <<"src", "types">>, <<"public">>, <<".vscode">> >>

get_react_native_structure ==
    << <<"src">>, <<"src", "components">>, <<"src", "screens">>,
       <<"src", "navigation">>, <<"src", "hooks">>, <<"src", "utils">>,
       <<"src", "types">>, <<"android">>, <<"ios">>, <<".vscode">> >>

create_directory_structure(base_path, structure) ==
    << mkdir(base_path) >>
    \o [i \in 1..Len(structure) |-> mkdir(join(base_path, structure[i]))]

extension(typescript) == IF typescript THEN "tsx" ELSE "jsx"

\* variant: the entry point always gets the plain extension
generate_react_files_main_jsx(project_path, typescript) ==
    LET ext == extension(typescript) IN
    << write(join(project_path, <<"src", "App." \o ext>>), react_app_content(ext)),
       write(join(project_path, <<"src", "main.jsx">>), react_main_content(ext)),
       write(join(project_path, <<"src", "App.css">>), css_content),
       write(join(project_path, <<"src", "index.css">>), "/* Global styles */") >>

generate_react_files(project_path, typescript) ==
    LET ext == extension(typescript) IN
    << write(join(project_path, <<"src", "App." \o ext>>), react_app_content(ext)),
       write(join(project_path, <<"src", "main." \o extension(typescript)>>),
             react_main_content(ext)),
       write(join(project_path, <<"src", "App.css">>), css_content),
       write(join(project_path, <<"src", "index.css">>), "/* Global styles */") >>

\* variant: a separate entry point is written too
generate_react_native_files_with_index(project_path, typescript, navigation) ==
    LET ext == extension(typescript) IN
    << write(join(project_path, <<"src", "App." \o ext>>),
             react_native_app_content(IF typescript THEN ": React.FC" ELSE "")),
       write(join(project_path, <<"src", "index." \o ext>>), "") >>

generate_react_native_files(project_path, typescript, navigation) ==
    LET ext == extension(typescript) IN
    << write(join(project_path, <<"src", "App." \o ext>>),
             react_native_app_content(IF typescript THEN ": React.FC" ELSE "")) >>

\* variant: the manifest is written before the skeleton is created
create_react_project_manifest_first(name, typescript, testing) ==
    LET project_path == <<name>> IN
    << check_free(project_path) >>
    \o << write(join(project_path, <<"package.json">>),
                generate_package_json(name, typescript, testing, FALSE)) >>
    \o create_directory_structure(project_path, get_react_structure)
    \o (IF typescript
        THEN << write(join(project_path, <<"tsconfig.json">>), generate_tsconfig) >>
        ELSE << >>)
    \o generate_react_files(project_path, typescript)

create_react_project(name, typescript, testing) ==
    LET project_path == <<name>> IN
    << check_free(project_path) >>
    \o create_directory_structure(project_path, get_react_structure)
    \o << write(join(project_path, <<"package.json">>),
                generate_package_json(name, typescript, testing, FALSE)) >>
    \o (IF typescript
        THEN << write(join(project_path, <<"tsconfig.json">>), generate_tsconfig) >>
        ELSE << >>)
    \o generate_react_files(project_path, typescript)

\* variant: the compiler configuration is written whatever the flag
create_react_native_project_always_tsconfig(name, typescript, navigation) ==
    LET project_path == <<name>> IN
    << check_free(project_path) >>
    \o create_directory_structure(project_path, get_react_native_structure)
    \o << write(join(project_path, <<"package.json">>),
                generate_package_json(name, typescript, FALSE, navigation)) >>
    \o << write(join(project_path, <<"tsconfig.json">>), generate_tsconfig) >>
    \o generate_react_native_files(project_path, typescript, navigation)

create_react_native_project(name, typescript, navigation) ==
    LET project_path == <<name>> IN
    << check_free(project_path) >>
    \o create_directory_structure(project_path, get_react_native_structure)
    \o << write(join(project_path, <<"package.json">>),
                generate_package_json(name, typescript, FALSE, navigation)) >>
    \o (IF typescript
        THEN << write(join(project_path, <<"tsconfig.json">>), generate_tsconfig) >>
        ELSE << >>)
    \o generate_react_native_files(project_path, typescript, navigation)

\* variant: --lib for every project type but "binary"
cargo_args_lib_unless_binary(name, project_type) ==
    <<"new", name, "--name", name>>
    \o (IF project_type /= "binary" THEN <<"--lib">> ELSE << >>)

\* lines 183-184
cargo_args(name, project_type) ==
    <<"new", name, "--name", name>>
    \o (IF project_type = "library" THEN <<"--lib">> ELSE << >>)

enhance_cargo_toml(project_path) ==
    LET cargo_path == join(project_path, <<"Cargo.toml">>) IN
    << Call("read_to_string", cargo_path, "", << >>),
       Call("push_str", << >>, cargo_toml_block, << >>),
       Call("write_local", cargo_path, "", << >>) >>

create_rust_project(name, project_type) ==
    LET project_path == <<name>> IN
    << check_free(project_path),
       Call("spawn", <<"cargo">>, "", cargo_args(name, project_type)) >>
    \o enhance_cargo_toml(project_path)

\* the calls the command makes, in order (the match of main, lines 90-103)
main(c) ==
    CASE c.kind = "react" -> create_react_project(c.name, c.typescript, c.testing)
      [] c.kind = "react-native" ->
            create_react_native_project(c.name, c.typescript, c.navigation)
      [] c.kind = "rust" -> create_rust_project(c.name, c.project_type)
      [] OTHER -> << >>

\* the process exit status of main's Result
exit_code(st) == IF st = "ok" THEN 0 ELSE 1

(* ------------------------------ the cargo tool ------------------------- *)

\* manifests `cargo new` may produce for a package
cargo_manifests(name) ==
    { "[package]\nname = \"" \o name \o "\"\nversion = \"0.1.0\"\nedition = \""
        \o ed \o "\"\n\n[dependencies]\n" : ed \in {"2021", "2024"} }

\* the tree `cargo new` leaves when it succeeds
cargo_new(f, name, args, manifest) ==
    LET lib == \E i \in 1..Len(args) : args[i] = "--lib"
        f1 == Put(f, <<name>>, Dir)
        f2 == Put(f1, <<name, "Cargo.toml">>, File(manifest))
        f3 == Put(f2, <<name, "src">>, Dir)
    IN  Put(f3, <<name, "src", IF lib THEN "lib.rs" ELSE "main.rs">>, File("// cargo\n"))

(* ------------------------------ state machine -------------------------- *)

Generators == {"react", "react-native", "rust"}

Command(kind, name, typescript, testing, navigation, project_type) ==
    [kind |-> kind, name |-> name, typescript |-> typescript, testing |-> testing,
     navigation |-> navigation, project_type |-> project_type]

Commands ==
    {Command("react", n, t, x, FALSE, "") : n \in Names, t \in BOOLEAN, x \in BOOLEAN}
    \cup {Command("react-native", n, t, FALSE, x, "") :
            n \in Names, t \in BOOLEAN, x \in BOOLEAN}
    \cup {Command("rust", n, FALSE, FALSE, FALSE, p) : n \in Names, p \in ProjectTypes}
    \cup {Command("list", "", FALSE, FALSE, FALSE, "")}

BuilderCalls ==
    {Command("generate_package_json", n, t, x, v, "") :
        n \in Names, t \in BOOLEAN, x \in BOOLEAN, v \in BOOLEAN}

FsOf(entries) ==
    [p \in {e[1] : e \in entries} |-> (CHOOSE e \in entries : e[1] = p)[2]]

\* the working directory before the command: empty, the name taken by a file,
\* by an empty or a populated directory, or an unrelated project next to it
InitialFs(c) ==
    IF c.kind \notin Generators THEN {FsOf({})}
    ELSE LET n == c.name IN
         { FsOf({}),
           FsOf({<< <<n>>, File("taken\n") >>}),
           FsOf({<< <<n>>, Dir >>}),
           FsOf({<< <<n>>, Dir >>, << <<n, "src">>, Dir >>,
                 << <<n, "README.md">>, File("# readme\n") >>}),
           FsOf({<< <<"other">>, Dir >>, << <<"other", "src">>, Dir >>,
                 << <<"other", "package.json">>, File("{}") >>}) }

Init ==
    /\ cmd \in Commands
    /\ fs \in InitialFs(cmd)
    /\ fs0 = fs
    /\ pc = 1
    /\ status = "running"
    /\ err = ""
    /\ content = ""
    /\ ops = << >>

InitFn ==
    /\ cmd \in Commands \cup BuilderCalls
    /\ fs \in InitialFs(cmd)
    /\ fs0 = fs
    /\ pc = 1
    /\ status = "running"
    /\ err = ""
    /\ content = ""
    /\ ops = << >>

Running == status = "running" /\ cmd.kind \in Generators \cup {"list"}

AtCall(opnames) ==
    /\ Running
    /\ pc <= Len(main(cmd))
    /\ main(cmd)[pc].op \in opnames

CurStep == main(cmd)[pc]

Done(ok, text) ==
    [step |-> pc, op |-> CurStep.op, path |-> CurStep.path, args |-> CurStep.args,
     text |-> text, ok |-> ok]

\* variant: the result of the call is dropped
question_mark_ignored(ok, msg) == [status |-> "running", err |-> "", pc |-> pc + 1]

\* the `?` after a call: go on when it returned Ok, return its Err otherwise
question_mark(ok, msg) ==
    IF ok THEN [status |-> "running", err |-> "", pc |-> pc + 1]
    ELSE [status |-> "err", err |-> msg, pc |-> pc]

Goto(r) == status' = r.status /\ err' = r.err /\ pc' = r.pc

Bail(msg) == status' = "err" /\ err' = msg /\ pc' = pc

PathConflict ==
    /\ AtCall({"exists"})
    /\ exists(fs, CurStep.path)
    /\ Bail("Directory " \o cmd.name \o " already exists")
    /\ UNCHANGED <<cmd, fs, fs0, content, ops>>

PathFree ==
    /\ AtCall({"exists"})
    /\ ~exists(fs, CurStep.path)
    /\ pc' = pc + 1
    /\ UNCHANGED <<cmd, fs, fs0, status, err, content, ops>>

CreateDirAll ==
    /\ AtCall({"create_dir_all"})
    /\ LET r == create_dir_all(fs, CurStep.path) IN
        /\ fs' = r.fs
        /\ ops' = Append(ops, Done(r.ok, ""))
        /\ Goto(question_mark(r.ok, "io: create_dir_all"))
    /\ UNCHANGED <<cmd, fs0, content>>

CreateDirAllFails ==
    /\ AtCall({"create_dir_all"})
    /\ ops' = Append(ops, Done(FALSE, ""))
    /\ Goto(question_mark(FALSE, "io: create_dir_all"))
    /\ UNCHANGED <<cmd, fs, fs0, content>>

TextOf(step) == IF step.op = "write_local" THEN content ELSE step.text

Write ==
    /\ AtCall({"write", "write_local"})
    /\ LET ok == can_write(fs, CurStep.path) IN
        /\ fs' = IF ok THEN Put(fs, CurStep.path, File(TextOf(CurStep))) ELSE fs
        /\ ops' = Append(ops, Done(ok, TextOf(CurStep)))
        /\ Goto(question_mark(ok, "io: write"))
    /\ UNCHANGED <<cmd, fs0, content>>

WriteFails ==
    /\ AtCall({"write", "write_local"})
    /\ fs' \in write_failures(fs, CurStep.path, TextOf(CurStep))
    /\ ops' = Append(ops, Done(FALSE, TextOf(CurStep)))
    /\ Goto(question_mark(FALSE, "io: write"))
    /\ UNCHANGED <<cmd, fs0, content>>

SpawnNotFound ==
    /\ AtCall({"spawn"})
    /\ ops' = Append(ops, Done(FALSE, ""))
    /\ Goto(question_mark(FALSE, "Failed to execute cargo new"))
    /\ UNCHANGED <<cmd, fs, fs0, content>>

SpawnExitsNonZero ==
    /\ AtCall({"spawn"})
    /\ fs' \in {fs, Put(fs, <<cmd.name>>, Dir)}
    /\ ops' = Append(ops, Done(FALSE, ""))
    /\ Bail("Cargo new failed: " \o "error: could not create package\n")
    /\ UNCHANGED <<cmd, fs0, content>>

SpawnSucceeds ==
    /\ AtCall({"spawn"})
    /\ \E manifest \in cargo_manifests(cmd.name) :
        /\ fs' = cargo_new(fs, cmd.name, CurStep.args, manifest)
        /\ ops' = Append(ops, Done(TRUE, manifest))
    /\ pc' = pc + 1
    /\ UNCHANGED <<cmd, fs0, status, err, content>>

ReadToString ==
    /\ AtCall({"read_to_string"})
    /\ LET ok == CurStep.path \in DOMAIN fs /\ fs[CurStep.path].kind = "file" IN
        /\ content' = IF ok THEN fs[CurStep.path].content ELSE content
        /\ ops' = Append(ops, Done(ok, ""))
        /\ Goto(question_mark(ok, "io: read_to_string"))
    /\ UNCHANGED <<cmd, fs, fs0>>

ReadToStringFails ==
    /\ AtCall({"read_to_string"})
    /\ ops' = Append(ops, Done(FALSE, ""))
    /\ Goto(question_mark(FALSE, "io: read_to_string"))
    /\ UNCHANGED <<cmd, fs, fs0, content>>

PushStr ==
    /\ AtCall({"push_str"})
    /\ content' = content \o CurStep.text
    /\ pc' = pc + 1
    /\ UNCHANGED <<cmd, fs, fs0, status, err, ops>>

\* the generator (or list_templates) returned: main returns Ok(())
ReturnOk ==
    /\ Running
    /\ pc = Len(main(cmd)) + 1
    /\ status' = "ok"
    /\ UNCHANGED <<cmd, fs, fs0, pc, err, content, ops>>

\* a content builder applied on its own to arbitrary flags
CallGeneratePackageJson ==
    /\ status = "running"
    /\ cmd.kind = "generate_package_json"
    /\ content' = generate_package_json(cmd.name, cmd.typescript, cmd.testing,
                                        cmd.navigation)
    /\ status' = "ok"
    /\ UNCHANGED <<cmd, fs, fs0, pc, err, ops>>

Next ==
    \/ PathConflict
    \/ PathFree
    \/ CreateDirAll
    \/ CreateDirAllFails
    \/ Write
    \/ WriteFails
    \/ SpawnNotFound
    \/ SpawnExitsNonZero
    \/ SpawnSucceeds
    \/ ReadToString
    \/ ReadToStringFails
    \/ PushStr
    \/ ReturnOk

NextFn == Next \/ CallGeneratePackageJson

Spec == Init /\ [][Next]_vars

SpecFn == InitFn /\ [][NextFn]_vars

(* ------------------------------ properties ----------------------------- *)

Root == <<cmd.name>>

StartedFree == cmd.kind \in Generators /\ Root \notin DOMAIN fs0

StartedTaken == cmd.kind \in Generators /\ Root \in DOMAIN fs0

Under(f, root, kind) ==
    {SubSeq(p, Len(root) + 1, Len(p)) :
        p \in {q \in DOMAIN f : /\ Len(q) > Len(root)
                                /\ SubSeq(q, 1, Len(root)) = root
                                /\ f[q].kind = kind}}

Failed(i) == ~ops[i].ok

\* C1: a generator invoked on a path that already exists (a file or a
\* directory) returns "Directory <name> already exists", makes no file-system
\* or process call at all, and leaves the file system as it found it.
C1_PathConflictWritesNothing ==
    StartedTaken =>
        /\ fs = fs0
        /\ ops = << >>
        /\ pc = 1
        /\ status \in {"running", "err"}
        /\ status = "err" => err = "Directory " \o cmd.name \o " already exists"

C1_Witness ==
    /\ cmd.kind = "rust"
    /\ Root \in DOMAIN fs0
    /\ fs0[Root].kind = "file"
    /\ status = "err"

\* C2: after a successful run the directories under the project root are
\* exactly the fixed skeleton of the project kind, whatever the flags.
C2_ExactSkeleton ==
    (status = "ok" /\ cmd.kind \in {"react", "react-native"}) =>
        /\ fs[Root].kind = "dir"
        /\ cmd.kind = "react" =>
            Under(fs, Root, "dir") =
                { <<"src">>, <<"src", "components">>, <<"src", "hooks">>,
                  <<"src", "utils">>, <<"src", "types">>, <<"public">>, <<".vscode">> }
        /\ cmd.kind = "react-native" =>
            Under(fs, Root, "dir") =
                { <<"src">>, <<"src", "components">>, <<"src", "hooks">>,
                  <<"src", "utils">>, <<"src", "types">>, <<".vscode">>,
                  <<"src", "screens">>, <<"src", "navigation">>, <<"android">>, <<"ios">> }

C2_Witness ==
    /\ status = "ok"
    /\ cmd.kind = "react-native"
    /\ cmd.navigation
    /\ <<"other">> \in DOMAIN fs0
    /\ <<"android">> \in Under(fs, Root, "dir")

ScriptsOk(text, testing) ==
    LET s == Section(text, "scripts") IN
    /\ HasKey(s, "test") <=> testing
    /\ \A k \in {"dev", "build", "lint", "preview"} : HasKey(s, k)

ManifestPath == join(Root, <<"package.json">>)

\* C3: the script table of the manifest has a `test` entry iff includeTesting,
\* and always the dev, build, lint and preview entries: for the builder on every
\* flag combination, and for the manifest a generator leaves on disk.
C3_TestScriptIffTesting ==
    /\ (cmd.kind = "generate_package_json" /\ status = "ok") =>
            ScriptsOk(content, cmd.testing)
    /\ (cmd.kind \in {"react", "react-native"} /\ status = "ok") =>
            ScriptsOk(fs[ManifestPath].content, cmd.testing)

C3_Witness ==
    /\ cmd.kind = "generate_package_json"
    /\ status = "ok"
    /\ cmd.testing
    /\ cmd.navigation
    /\ HasKey(Section(content, "scripts"), "test")

TsconfigPath == join(Root, <<"tsconfig.json">>)

\* C4: after a successful React or React Native run tsconfig.json exists in the
\* project root iff useTypedLanguage, and its text is the one fixed text.
C4_TsconfigIffTyped ==
    (status = "ok" /\ cmd.kind \in {"react", "react-native"}) =>
        /\ TsconfigPath \in DOMAIN fs <=> cmd.typescript
        /\ cmd.typescript =>
            /\ fs[TsconfigPath] = File(generate_tsconfig)
            /\ Contains(fs[TsconfigPath].content, "\"jsx\": \"react-jsx\"")

C4_Witness ==
    /\ status = "ok"
    /\ cmd.kind = "react-native"
    /\ cmd.typescript
    /\ TsconfigPath \in DOMAIN fs

C5_State ==
    \* the step that failed is the last call made, and the command failed
    /\ \A i \in 1..Len(ops) :
            Failed(i) => /\ i = Len(ops)
                         /\ status = "err"
                         /\ exit_code(status) /= 0
    \* no call is made twice
    /\ \A i, j \in 1..Len(ops) : i < j => ops[i].step < ops[j].step
    \* a failed tool call leaves no manifest behind and nothing is appended
    /\ \A i \in 1..Len(ops) :
            (ops[i].op = "spawn" /\ Failed(i)) =>
                join(Root, <<"Cargo.toml">>) \notin DOMAIN fs
    \* nothing that existed is removed
    /\ DOMAIN fs0 \subseteq DOMAIN fs

C5_Step ==
    \* a step removes no entry, and the only entry a step ever changes is the
    \* Rust manifest, by the rewrite of enhance_cargo_toml
    /\ DOMAIN fs \subseteq DOMAIN fs'
    /\ \A p \in DOMAIN fs :
            fs'[p] /= fs[p] =>
                /\ Len(ops') = Len(ops) + 1
                /\ ops'[Len(ops')].op = "write_local"
                /\ ops'[Len(ops')].path = p
                /\ p = join(Root, <<"Cargo.toml">>)
    \* after a failure nothing runs any more
    /\ status = "err" => (fs' = fs /\ ops' = ops /\ status' = "err")

\* C5: a failed step is the last step: no later directory is created or file
\* written, the Rust manifest is not appended to after a failed tool call,
\* no entry made before the failure is removed, no step is retried, and the
\* command ends in the failure outcome (non-zero exit).
C5_FailureAborts == []C5_State /\ [][C5_Step]_vars

C5_Witness ==
    /\ status = "err"
    /\ cmd.kind = "react"
    /\ Len(ops) > 9
    /\ Failed(Len(ops))
    /\ ops[Len(ops)].op = "write"
    /\ ManifestPath \in DOMAIN fs

Spawns == {i \in 1..Len(ops) : ops[i].op = "spawn"}

CargoPath == join(Root, <<"Cargo.toml">>)

ExpectedCargoArgs ==
    IF cmd.project_type = "library"
    THEN <<"new", cmd.name, "--name", cmd.name, "--lib">>
    ELSE <<"new", cmd.name, "--name", cmd.name>>

ToolCalledOnce ==
    (cmd.kind = "rust" /\ StartedFree /\ status /= "running") =>
        /\ Cardinality(Spawns) = 1
        /\ \A i \in Spawns : ops[i].path = <<"cargo">> /\ ops[i].args = ExpectedCargoArgs

\* C6 as stated: the tool is called exactly once with `new <name> --name <name>`
\* (+ `--lib` iff project_type is "library"), and when that call succeeds the
\* manifest after the run is the tool's manifest followed by the fixed block.
C6_AsStated ==
    /\ ToolCalledOnce
    /\ (cmd.kind = "rust" /\ status /= "running") =>
        \A i \in Spawns :
            ops[i].ok => fs[CargoPath].content = ops[i].text \o cargo_toml_block

\* C6 (amended): the tool is called exactly once with those arguments, and
\* when the whole run succeeds (the call, the read and the rewrite of the
\* manifest) the manifest is the tool's manifest followed by the fixed block.
C6_ManifestEnhanced ==
    /\ ToolCalledOnce
    /\ (cmd.kind = "rust" /\ status = "ok") =>
        /\ Spawns /= {}
        /\ \A i \in Spawns :
            /\ ops[i].ok
            /\ fs[CargoPath].content = ops[i].text \o cargo_toml_block
            /\ Contains(fs[CargoPath].content, "[profile.release]")
            /\ Contains(fs[CargoPath].content, "[profile.dev]")

C6_Witness ==
    /\ cmd.kind = "rust"
    /\ cmd.project_type = "library"
    /\ status = "ok"
    /\ <<cmd.name, "src", "lib.rs">> \in DOMAIN fs
    /\ Len(fs[CargoPath].content) > Len(cargo_toml_block)

NavigationLibs == {"@react-navigation/native", "@react-navigation/stack"}

TypedTooling == {"typescript", "@types/react", "@types/react-dom"}

TestingLibs == {"@testing-library/react", "@testing-library/jest-dom", "vitest"}

DepsOk(text, typescript, testing, navigation) ==
    LET d == Section(text, "dependencies")
        v == Section(text, "devDependencies")
    IN  /\ HasKey(d, "react")
        /\ \A k \in NavigationLibs : HasKey(d, k) <=> navigation
        /\ HasKey(v, "vite")
        /\ HasKey(v, "@vitejs/plugin-react")
        /\ \A k \in TypedTooling : HasKey(v, k) <=> typescript
        /\ \A k \in TestingLibs : HasKey(v, k) <=> testing

\* C7: runtime dependencies always hold react, and the navigation pair iff
\* includeNavigation; development dependencies always hold vite and its react
\* plugin, the typed-language tooling iff useTypedLanguage and the testing
\* libraries iff includeTesting. The manifest the React generator writes holds
\* no navigation library and the one the React Native generator writes no
\* testing library.
C7_DependencySets ==
    /\ (cmd.kind = "generate_package_json" /\ status = "ok") =>
            DepsOk(content, cmd.typescript, cmd.testing, cmd.navigation)
    /\ \A i \in 1..Len(ops) :
            (ops[i].op = "write" /\ ops[i].path = ManifestPath) =>
                /\ cmd.kind = "react" =>
                        DepsOk(ops[i].text, cmd.typescript, cmd.testing, FALSE)
                /\ cmd.kind = "react-native" =>
                        DepsOk(ops[i].text, cmd.typescript, FALSE, cmd.navigation)

C7_Witness ==
    /\ cmd.kind = "generate_package_json"
    /\ status = "ok"
    /\ cmd.typescript /\ cmd.testing /\ cmd.navigation
    /\ HasKey(Section(content, "devDependencies"), "@types/react-dom")
    /\ HasKey(Section(content, "dependencies"), "@react-navigation/stack")

\* C8: a successful React Native run leaves exactly package.json, src/App.tsx
\* (typed) or src/App.jsx (untyped), and tsconfig.json when typed: no entry
\* point, no stylesheet, whatever includeNavigation.
C8_ReactNativeFiles ==
    (status = "ok" /\ cmd.kind = "react-native") =>
        Under(fs, Root, "file") =
            IF cmd.typescript
            THEN { <<"package.json">>, <<"tsconfig.json">>, <<"src", "App.tsx">> }
            ELSE { <<"package.json">>, <<"src", "App.jsx">> }

C8_Witness ==
    /\ status = "ok"
    /\ cmd.kind = "react-native"
    /\ ~cmd.typescript
    /\ cmd.navigation
    /\ join(Root, <<"src", "App.jsx">>) \in DOMAIN fs

\* C9: a successful React run leaves src/App.<ext>, src/main.<ext>, src/App.css
\* and src/index.css (ext = tsx if typed, jsx otherwise), the component's text
\* names App.<ext>, the entry point imports ./App.<ext>, and no file of the
\* other extension is written or named.
C9_ReactSources ==
    (status = "ok" /\ cmd.kind = "react") =>
        LET ext == IF cmd.typescript THEN "tsx" ELSE "jsx"
            other == IF cmd.typescript THEN "jsx" ELSE "tsx"
            app == fs[join(Root, <<"src", "App." \o ext>>)].content
            entry == fs[join(Root, <<"src", "main." \o ext>>)].content
        IN  /\ {p \in Under(fs, Root, "file") : p[1] = "src"} =
                { <<"src", "App." \o ext>>, <<"src", "main." \o ext>>,
                  <<"src", "App.css">>, <<"src", "index.css">> }
            /\ Contains(app, "Edit src/App." \o ext \o " and save")
            /\ Contains(entry, "import App from './App." \o ext \o "';")
            /\ \A t \in {app, entry} :
                    ~Contains(t, "App." \o other) /\ ~Contains(t, "main." \o other)

C9_Witness ==
    /\ status = "ok"
    /\ cmd.kind = "react"
    /\ ~cmd.typescript
    /\ ~cmd.testing
    /\ Contains(fs[join(Root, <<"src", "App.jsx">>)].content, "App.jsx")

\* C10: whenever a React or React Native run is about to write a file, the
\* directory that will hold it, the project root and the whole skeleton have
\* already been created by this run.
C10_DirsBeforeFiles ==
    (cmd.kind \in {"react", "react-native"} /\ AtCall({"write"})) =>
        /\ \A d \in {Root, Parent(CurStep.path)} :
            /\ d \in DOMAIN fs /\ fs[d].kind = "dir"
            /\ d \notin DOMAIN fs0
            /\ \E j \in 1..Len(ops) :
                ops[j].op = "create_dir_all" /\ ops[j].ok /\ ops[j].path = d
        /\ \A i \in 1..Len(main(cmd)) :
            main(cmd)[i].op = "create_dir_all" =>
                \E j \in 1..Len(ops) : ops[j].step = i /\ ops[j].ok

C10_Witness ==
    /\ cmd.kind = "react"
    /\ AtCall({"write"})
    /\ CurStep.path = join(Root, <<"src", "App.tsx">>)
    /\ join(Root, <<"src">>) \in DOMAIN fs

====
